---- MODULE Spec2Model ----
(***************************************************************************)
(* postgoose: reconciliation of a numbered directory of SQL migrations     *)
(* with the ledger table of applied migrations (goose.py).                 *)
(*                                                                         *)
(* Three specifications share the definitions below:                       *)
(*   Spec      one process, runs executed one after the other              *)
(*   ConcSpec  two processes racing on the same ledger table               *)
(*   DiffSpec  get_diff applied to arbitrary histories and file sets       *)
(***************************************************************************)
EXTENDS Integers, Sequences, FiniteSets, TLC

\* ---------------------------------------------------------------- bounds
\* highest migration id of a directory / a drawn history
MaxId == 2
\* highest migration id of a directory in the two-process specification
MaxConcId == 1

\* the processes that may call run_migrations; Spec runs only Main
Main == "r1"
Runners == {"r1", "r2"}

\* the SQL texts a file of the directory may hold
UpBodies == {"a", "b"}
DownBodies == {"", "d"}

Min(S) == CHOOSE x \in S : \A y \in S : x <= y
Max(S) == CHOOSE x \in S : \A y \in S : x >= y
Range(s) == {s[i] : i \in 1..Len(s)}

\* ---------------------------------------------------------------- digest
\* sha256(...).hexdigest(): a value of its own kind, one per text
digest(s) == <<"sha256", s>>

\* ---------------------------------------------------------------- records
Migration(id, up, down) ==
    [migration_id |-> id, up_digest |-> digest(up), up |-> up,
     down_digest |-> digest(down), down |-> down]

\* ---------------------------------------------------------------- file names
\* A file name is the text before its first "_" (lead, a sequence of
\* character codes: 0..9 the digits, NonDigit any other character) and the
\* text after it (tail).
NonDigit == 10

RECURSIVE IntOf(_)
IntOf(lead) ==
    IF Len(lead) = 0 THEN 0
    ELSE 10 * IntOf(SubSeq(lead, 1, Len(lead) - 1)) + lead[Len(lead)]

IsInt(lead) == Len(lead) > 0 /\ \A i \in 1..Len(lead) : lead[i] \in 0..9

RECURSIVE Str(_)
Str(i) == IF i < 10 THEN <<i>> ELSE Str(i \div 10) \o <<i % 10>>

FileName(id, tail) == [lead |-> Str(id), tail |-> tail]

\* file.lower().endswith(".sql")
SqlTails == {"up.sql", "down.sql", "up.SQL", "notes.sql"}
EndsWithSql(name) == name.tail \in SqlTails

\* A directory is a set of files, each a name and a text.
Files(d) == {f.name : f \in d}
Read(d, name) == (CHOOSE f \in d : f.name = name).body

get_migration_files_filtered(d) == {n \in Files(d) : EndsWithSql(n)}

\* int(file_name.split('_')[0]); raises RuntimeError on a non-integer
get_migration_id_fails(name) == ~IsInt(name.lead)
get_migration_id(name) == IntOf(name.lead)

get_max_migration_id(filenames) == Max({get_migration_id(n) : n \in filenames})

\* (mutant of assert_all_migrations_present) the check for extra files left out
assert_all_migrations_present_no_extras(d) ==
    LET filenames == get_migration_files_filtered(d)
    IN  IF filenames = {} THEN "ok"
        ELSE IF \E n \in filenames : get_migration_id_fails(n) THEN "RuntimeError"
        ELSE LET max_migration_id == get_max_migration_id(filenames)
                 ups == {FileName(i, "up.sql") : i \in 1..max_migration_id}
                 downs == {FileName(i, "down.sql") : i \in 1..max_migration_id}
             IN  IF ~(ups \subseteq filenames /\ downs \subseteq filenames)
                 THEN "AssertionError"
                 ELSE "ok"

\* The result of assert_all_migrations_present: "ok" when it returns, and
\* otherwise the way it leaves the run.
assert_all_migrations_present(d) ==
    LET filenames == get_migration_files_filtered(d)
    IN  IF filenames = {} THEN "ok"
        ELSE IF \E n \in filenames : get_migration_id_fails(n) THEN "RuntimeError"
        ELSE LET max_migration_id == get_max_migration_id(filenames)
                 ups == {FileName(i, "up.sql") : i \in 1..max_migration_id}
                 downs == {FileName(i, "down.sql") : i \in 1..max_migration_id}
             IN  IF ~(ups \subseteq filenames /\ downs \subseteq filenames)
                 THEN "AssertionError"
                 ELSE IF (filenames \ ups) \ downs # {} THEN "exit3"
                 ELSE "ok"

parse_migration(d, migration_id) ==
    Migration(migration_id,
              Read(d, FileName(migration_id, "up.sql")),
              Read(d, FileName(migration_id, "down.sql")))

\* max() of no file names raises ValueError
parse_migrations_fails(d) == get_migration_files_filtered(d) = {}
parse_migrations(d) ==
    LET max_migration_id == get_max_migration_id(get_migration_files_filtered(d))
    IN  [i \in 1..max_migration_id |-> parse_migration(d, i)]

\* ---------------------------------------------------------------- sorting
\* sorted(..., key=lambda m: m.migration_id), stable
RECURSIVE InsertAsc(_, _)
InsertAsc(m, s) ==
    IF s = <<>> THEN <<m>>
    ELSE IF m.migration_id < Head(s).migration_id THEN <<m>> \o s
    ELSE <<Head(s)>> \o InsertAsc(m, Tail(s))

RECURSIVE sorted_asc(_)
sorted_asc(s) ==
    IF s = <<>> THEN <<>>
    ELSE InsertAsc(s[Len(s)], sorted_asc(SubSeq(s, 1, Len(s) - 1)))

\* (mutant of sorted_desc) reverse=True forgotten
sorted_desc_asc(s) == sorted_asc(s)

\* sorted(..., key=lambda m: m.migration_id, reverse=True), stable
RECURSIVE InsertDesc(_, _)
InsertDesc(m, s) ==
    IF s = <<>> THEN <<m>>
    ELSE IF m.migration_id > Head(s).migration_id THEN <<m>> \o s
    ELSE <<Head(s)>> \o InsertDesc(m, Tail(s))

RECURSIVE sorted_desc(_)
sorted_desc(s) ==
    IF s = <<>> THEN <<>>
    ELSE InsertDesc(s[Len(s)], sorted_desc(SubSeq(s, 1, Len(s) - 1)))

\* ---------------------------------------------------------------- ledger
\* The rows of the ledger table as a list in the order the server returns
\* them (any order).
RECURSIVE get_db_migrations(_)
get_db_migrations(rows) ==
    IF rows = {} THEN <<>>
    ELSE LET r == CHOOSE r \in rows : TRUE
         IN  <<r>> \o get_db_migrations(rows \ {r})

\* ---------------------------------------------------------------- get_diff
\* the positions zip() pairs
ZipIdx(db_migrations, file_system_migrations) ==
    1..(IF Len(db_migrations) < Len(file_system_migrations)
        THEN Len(db_migrations) ELSE Len(file_system_migrations))

\* (mutant of Differs) the stored digests compared whatever the setting
Differs_stored(db_migration, file_migration, strict_digest_check) ==
    db_migration.up_digest # file_migration.up_digest

\* (mutant of Differs) the down bodies compared as well as the up bodies
Differs_with_down(db_migration, file_migration, strict_digest_check) ==
    IF strict_digest_check
    THEN \/ digest(db_migration.up) # digest(file_migration.up)
         \/ digest(db_migration.down) # digest(file_migration.down)
    ELSE \/ db_migration.up_digest # file_migration.up_digest
         \/ db_migration.down_digest # file_migration.down_digest

Differs(db_migration, file_migration, strict_digest_check) ==
    IF strict_digest_check
    THEN digest(db_migration.up) # digest(file_migration.up)
    ELSE db_migration.up_digest # file_migration.up_digest

\* the positions at which the loop of get_diff would break
DivergentIdx(db_migrations, file_system_migrations, strict_digest_check) ==
    {i \in ZipIdx(db_migrations, file_system_migrations) :
        Differs(db_migrations[i], file_system_migrations[i], strict_digest_check)}

\* (mutant of get_diff) without a divergence, the file migrations from the
\* highest history id on, that id included
get_diff_from_max(db_migrations, file_system_migrations, strict_digest_check) ==
    LET div == DivergentIdx(db_migrations, file_system_migrations,
                            strict_digest_check)
    IN  IF div # {}
        THEN LET first_divergence == db_migrations[Min(div)]
             IN  [old_branch |->
                     sorted_desc(SelectSeq(db_migrations,
                         LAMBDA m : m.migration_id >= first_divergence.migration_id)),
                  new_branch |->
                     sorted_asc(SelectSeq(file_system_migrations,
                         LAMBDA m : m.migration_id >= first_divergence.migration_id))]
        ELSE LET max_old_id ==
                     IF db_migrations = <<>> THEN 0
                     ELSE Max({m.migration_id : m \in Range(db_migrations)})
             IN  [old_branch |-> <<>>,
                  new_branch |->
                     sorted_asc(SelectSeq(file_system_migrations,
                         LAMBDA m : m.migration_id >= max_old_id))]

\* (mutant of get_diff) after a divergence, the file migrations above the
\* divergent id only
get_diff_above_divergence(db_migrations, file_system_migrations, strict_digest_check) ==
    LET div == DivergentIdx(db_migrations, file_system_migrations,
                            strict_digest_check)
    IN  IF div # {}
        THEN LET first_divergence == db_migrations[Min(div)]
             IN  [old_branch |->
                     sorted_desc(SelectSeq(db_migrations,
                         LAMBDA m : m.migration_id >= first_divergence.migration_id)),
                  new_branch |->
                     sorted_asc(SelectSeq(file_system_migrations,
                         LAMBDA m : m.migration_id > first_divergence.migration_id))]
        ELSE LET max_old_id ==
                     IF db_migrations = <<>> THEN 0
                     ELSE Max({m.migration_id : m \in Range(db_migrations)})
             IN  [old_branch |-> <<>>,
                  new_branch |->
                     sorted_asc(SelectSeq(file_system_migrations,
                         LAMBDA m : m.migration_id > max_old_id))]

get_diff(db_migrations, file_system_migrations, strict_digest_check) ==
    LET div == DivergentIdx(db_migrations, file_system_migrations,
                            strict_digest_check)
    IN  IF div # {}
        THEN LET first_divergence == db_migrations[Min(div)]
             IN  [old_branch |->
                     sorted_desc(SelectSeq(db_migrations,
                         LAMBDA m : m.migration_id >= first_divergence.migration_id)),
                  new_branch |->
                     sorted_asc(SelectSeq(file_system_migrations,
                         LAMBDA m : m.migration_id >= first_divergence.migration_id))]
        ELSE LET max_old_id ==
                     IF db_migrations = <<>> THEN 0
                     ELSE Max({m.migration_id : m \in Range(db_migrations)})
             IN  [old_branch |-> <<>>,
                  new_branch |->
                     sorted_asc(SelectSeq(file_system_migrations,
                         LAMBDA m : m.migration_id > max_old_id))]

\* ---------------------------------------------------------------- inputs
\* the directories a run may be given: migrations 1..m, any texts
ValidDir(m, ups, downs) ==
    {[name |-> FileName(i, "up.sql"), body |-> ups[i]] : i \in 1..m}
    \cup {[name |-> FileName(i, "down.sql"), body |-> downs[i]] : i \in 1..m}

ValidDirs(maxId, downBodies) ==
    UNION {{ValidDir(m, ups, downs) :
                ups \in [1..m -> UpBodies], downs \in [1..m -> downBodies]} :
           m \in 0..maxId}

\* directories the loader refuses: a file missing, a file too many
BaseDir(m) == ValidDir(m, [i \in 1..m |-> "a"], [i \in 1..m |-> "d"])
BadDirs ==
    UNION {{BaseDir(m) \ {f} : f \in BaseDir(m)} : m \in 1..MaxId}
    \cup {BaseDir(m) \cup {[name |-> [lead |-> <<NonDigit>>, tail |-> "notes.sql"],
                              body |-> "a"]} : m \in 0..MaxId}
    \cup {BaseDir(m) \cup {[name |-> [lead |-> Str(m), tail |-> "up.SQL"],
                              body |-> "a"]} : m \in 1..MaxId}
    \cup {BaseDir(m) \cup {[name |-> [lead |-> <<0>> \o Str(m), tail |-> "up.sql"],
                              body |-> "a"]} : m \in 1..MaxId}
    \cup {BaseDir(m) \cup {[name |-> FileName(m + 2, tail), body |-> "a"]} :
              m \in 0..MaxId, tail \in {"up.sql", "down.sql"}}
    \cup {{[name |-> FileName(0, "up.sql"), body |-> "a"]}}

\* a directory without any .sql file
NoSqlDirs == {{}, {[name |-> [lead |-> <<NonDigit>>, tail |-> "notes.txt"],
                    body |-> "a"]}}

Dirs == ValidDirs(MaxId, DownBodies) \cup BadDirs \cup NoSqlDirs
\* the directories of the two-process specification: one down text
ConcDirs == ValidDirs(MaxConcId, {"d"})

\* ---------------------------------------------------------------- state
VARIABLES
    ledger,   \* the committed rows of the table goose_migrations
    lock,     \* the processes holding the EXCLUSIVE lock of their ledger table
    run,      \* per process: the locals of its run_migrations call
    migrations_table,   \* per process: the module global of line 18
    custom    \* the committed rows of the table named by an override

vars == <<ledger, lock, run, migrations_table, custom>>

\* line 18: the value the module global starts with
DefaultTable == "goose_migrations"

\* a table name given with --migrations_table_name
CustomTable == "custom_migrations"

\* migrations_table_name: Optional[str] = None
None == "None"

\* the committed rows of the table process r names in its statements
table_rows(r) == IF migrations_table[r] = DefaultTable THEN ledger ELSE custom

NoRun ==
    [pc |-> "idle", dir |-> {}, auto_apply_down |-> FALSE,
     strict_digest_check |-> TRUE,
     migrations_from_db |-> <<>>, migrations_from_filesystem |-> <<>>,
     old_branch |-> <<>>, new_branch |-> <<>>,
     txn |-> {}, n_down |-> 0, n_up |-> 0, executed |-> <<>>,
     outcome |-> "none", failed_id |-> 0, rerun |-> FALSE,
     migrations_table_name |-> None]

Init ==
    /\ ledger = {}
    /\ lock = {}
    /\ run = [r \in Runners |-> NoRun]
    /\ migrations_table = [r \in Runners |-> DefaultTable]
    /\ custom = {}

\* ---------------------------------------------------------------- run_migrations
\* (mutant of Raise) the work done before the exception is committed
Raise_commits(r, error, id, log) ==
    /\ run' = [run EXCEPT ![r].pc = "done", ![r].outcome = error,
                           ![r].failed_id = id, ![r].executed = @ \o log]
    /\ lock' = lock \ {r}
    /\ ledger' = IF run[r].pc = "locked" THEN run[r].txn ELSE ledger
    /\ UNCHANGED <<migrations_table, custom>>

\* the run leaves "with conn:" by an exception, after the statements of log
\* ran: the transaction is rolled back, which also releases the lock
Raise(r, error, id, log) ==
    /\ run' = [run EXCEPT ![r].pc = "done", ![r].outcome = error,
                           ![r].failed_id = id, ![r].executed = @ \o log]
    /\ lock' = lock \ {r}
    /\ UNCHANGED <<ledger, migrations_table, custom>>

\* lines 204-235: validate the directory, connect, create the table if
\* needed, read the ledger, parse the directory, compute the divergence
\* (again: the call repeats the process's last call, which succeeded, on the
\* same directory; name: the migrations_table_name argument). Lines 218-220
\* assign the module global only when a name is given, after the directory
\* was validated and before the table is read.
run_migrations(r, d, name, auto, strict, again) ==
    LET present == assert_all_migrations_present(d)
        start == [NoRun EXCEPT !.dir = d, !.auto_apply_down = auto,
                               !.strict_digest_check = strict,
                               !.rerun = again,
                               !.migrations_table_name = name]
        table == IF name # None THEN name ELSE migrations_table[r]
        from_db == sorted_asc(get_db_migrations(
                        IF table = DefaultTable THEN ledger ELSE custom))
    IN  /\ IF present # "ok"
           THEN /\ run' = [run EXCEPT ![r] =
                            [start EXCEPT !.pc = "done", !.outcome = present]]
                /\ UNCHANGED migrations_table
           ELSE /\ migrations_table' = [migrations_table EXCEPT ![r] = table]
                /\ IF parse_migrations_fails(d)
                   THEN run' = [run EXCEPT ![r] =
                            [start EXCEPT !.pc = "done", !.outcome = "ValueError",
                                          !.migrations_from_db = from_db]]
                   ELSE LET from_fs == sorted_asc(parse_migrations(d))
                            diff == get_diff(from_db, from_fs, strict)
                        IN  run' = [run EXCEPT ![r] =
                                [start EXCEPT !.pc = "acquire",
                                              !.migrations_from_db = from_db,
                                              !.migrations_from_filesystem = from_fs,
                                              !.old_branch = diff.old_branch,
                                              !.new_branch = diff.new_branch]]
        /\ UNCHANGED <<ledger, lock, custom>>

\* a call without --migrations_table_name
BeginRun(r, d, auto, strict, again) == run_migrations(r, d, None, auto, strict, again)

\* (mutant of AcquireMutex) a lock mode that does not conflict with itself
AcquireMutex_shared(r) ==
    /\ run[r].pc = "acquire"
    /\ lock' = lock \cup {r}
    /\ run' = [run EXCEPT ![r].pc = "locked", ![r].txn = table_rows(r)]
    /\ UNCHANGED <<ledger, migrations_table, custom>>

\* acquire_mutex: LOCK TABLE ... IN EXCLUSIVE MODE is granted
AcquireMutex(r) ==
    /\ run[r].pc = "acquire"
    /\ \A q \in lock : migrations_table[q] # migrations_table[r]
    /\ lock' = lock \cup {r}
    /\ run' = [run EXCEPT ![r].pc = "locked", ![r].txn = table_rows(r)]
    /\ UNCHANGED <<ledger, migrations_table, custom>>

\* (mutant of LockTimeout) lock_timeout left at the server's default, 0: the
\* LOCK TABLE statement waits until the lock is granted
LockTimeout_never(r) ==
    /\ run[r].pc = "acquire"
    /\ FALSE
    /\ UNCHANGED vars

\* (mutant of LockTimeout) acquire_mutex called after apply_all instead of
\* before it: the up bodies have run when the timeout is raised
LockTimeout_late(r) ==
    /\ run[r].pc = "acquire"
    /\ lock \ {r} # {}
    /\ Raise(r, "MigrationInProgress", 0,
             [i \in 1..Len(run[r].new_branch) |->
                 [op |-> "up", id |-> run[r].new_branch[i].migration_id,
                  body |-> run[r].new_branch[i].up]])

\* acquire_mutex: the lock is still held when lock_timeout expires
LockTimeout(r) ==
    /\ run[r].pc = "acquire"
    /\ \E q \in lock \ {r} : migrations_table[q] = migrations_table[r]
    /\ Raise(r, "MigrationInProgress", 0, <<>>)

\* lines 239-246: a rollback is needed and --auto_apply_down is not set
FailBlocked(r) ==
    /\ run[r].pc = "locked"
    /\ run[r].old_branch # <<>>
    /\ ~run[r].auto_apply_down
    /\ Raise(r, "DownsNotAllowed", run[r].old_branch[1].migration_id, <<>>)

Unapplying(r) ==
    /\ run[r].pc = "locked"
    /\ run[r].old_branch # <<>>
    /\ run[r].auto_apply_down
    /\ run[r].n_down < Len(run[r].old_branch)

\* (mutant of Applying) apply_all also runs when the rollback was refused
Applying_unchecked(r) ==
    /\ run[r].pc = "locked"
    /\ (run[r].old_branch # <<>> /\ run[r].auto_apply_down)
           => run[r].n_down = Len(run[r].old_branch)
    /\ run[r].n_up < Len(run[r].new_branch)

Applying(r) ==
    /\ run[r].pc = "locked"
    /\ run[r].old_branch # <<>> => (run[r].auto_apply_down
                                     /\ run[r].n_down = Len(run[r].old_branch))
    /\ run[r].n_up < Len(run[r].new_branch)

\* DELETE FROM ledger WHERE migration_id = id
delete_row(rows, id) == {row \in rows : row.migration_id # id}

\* INSERT: the primary key refuses a second row of the same id
insert_refused(rows, id) == \E row \in rows : row.migration_id = id

\* (mutant of ApplyDown) the DELETE put under "if migration.down:" together
\* with the execution of the body: an empty down body skips both
ApplyDown_skips_empty(r, result) ==
    /\ Unapplying(r)
    /\ LET migrations == run[r].old_branch
           migration == migrations[run[r].n_down + 1]
           body == <<[op |-> "down", id |-> migration.migration_id,
                      body |-> migration.down]>>
       IN  IF sorted_desc(migrations) # migrations
           THEN Raise(r, "OrderAssertionError", 0, <<>>)
           ELSE IF migration.down = ""
           THEN /\ run' = [run EXCEPT ![r].n_down = @ + 1]
                /\ UNCHANGED <<ledger, lock, migrations_table, custom>>
           ELSE IF result = "body_fails"
           THEN Raise(r, "ExecutionFailed", migration.migration_id, <<>>)
           ELSE IF result = "ledger_fails"
           THEN Raise(r, "ExecutionFailed", migration.migration_id, body)
           ELSE /\ run' = [run EXCEPT
                               ![r].executed = @ \o body \o
                                   <<[op |-> "delete", id |-> migration.migration_id,
                                      body |-> ""]>>,
                               ![r].txn = delete_row(@, migration.migration_id),
                               ![r].n_down = @ + 1]
                /\ UNCHANGED <<ledger, lock, migrations_table, custom>>

\* unapply_all / apply_down: one turn of the loop of unapply_all
\* (result: what the server answers to the statements of apply_down)
ApplyDown(r, result) ==
    /\ Unapplying(r)
    /\ LET migrations == run[r].old_branch
           migration == migrations[run[r].n_down + 1]
           body == IF migration.down # ""
                   THEN <<[op |-> "down", id |-> migration.migration_id,
                           body |-> migration.down]>>
                   ELSE <<>>
       IN  IF sorted_desc(migrations) # migrations
           THEN Raise(r, "OrderAssertionError", 0, <<>>)
           ELSE IF result = "body_fails" /\ migration.down # ""
           THEN Raise(r, "ExecutionFailed", migration.migration_id, <<>>)
           ELSE IF result = "ledger_fails"
           THEN Raise(r, "ExecutionFailed", migration.migration_id, body)
           ELSE /\ run' = [run EXCEPT
                               ![r].executed = @ \o body \o
                                   <<[op |-> "delete", id |-> migration.migration_id,
                                      body |-> ""]>>,
                               ![r].txn = delete_row(@, migration.migration_id),
                               ![r].n_down = @ + 1]
                /\ UNCHANGED <<ledger, lock, migrations_table, custom>>

\* (mutant of inserted_row) the two digests stored in each other's column
inserted_row_swapped(migration) ==
    [migration_id |-> migration.migration_id,
     up_digest |-> digest(migration.down), up |-> migration.up,
     down_digest |-> digest(migration.up), down |-> migration.down]

\* the row apply_up inserts
inserted_row(migration) ==
    [migration_id |-> migration.migration_id,
     up_digest |-> digest(migration.up), up |-> migration.up,
     down_digest |-> digest(migration.down), down |-> migration.down]

\* (mutant of ApplyUp) the two statements of apply_up in the other order:
\* the ledger row is inserted before the up body is executed
ApplyUp_insert_first(r, result) ==
    /\ Applying(r)
    /\ LET migrations == run[r].new_branch
           migration == migrations[run[r].n_up + 1]
           row == <<[op |-> "insert", id |-> migration.migration_id,
                     body |-> migration.up]>>
       IN  IF sorted_asc(migrations) # migrations
           THEN Raise(r, "OrderAssertionError", 0, <<>>)
           ELSE IF result = "ledger_fails"
                   \/ insert_refused(run[r].txn, migration.migration_id)
           THEN Raise(r, "ExecutionFailed", migration.migration_id, <<>>)
           ELSE IF result = "body_fails"
           THEN Raise(r, "ExecutionFailed", migration.migration_id, row)
           ELSE /\ run' = [run EXCEPT
                               ![r].executed = @ \o row \o
                                   <<[op |-> "up", id |-> migration.migration_id,
                                      body |-> migration.up]>>,
                               ![r].txn = @ \cup {inserted_row(migration)},
                               ![r].n_up = @ + 1]
                /\ UNCHANGED <<ledger, lock, migrations_table, custom>>

\* apply_all / apply_up: one turn of the loop of apply_all
ApplyUp(r, result) ==
    /\ Applying(r)
    /\ LET migrations == run[r].new_branch
           migration == migrations[run[r].n_up + 1]
           body == <<[op |-> "up", id |-> migration.migration_id,
                      body |-> migration.up]>>
       IN  IF sorted_asc(migrations) # migrations
           THEN Raise(r, "OrderAssertionError", 0, <<>>)
           ELSE IF result = "body_fails"
           THEN Raise(r, "ExecutionFailed", migration.migration_id, <<>>)
           ELSE IF result = "ledger_fails"
                   \/ insert_refused(run[r].txn, migration.migration_id)
           THEN Raise(r, "ExecutionFailed", migration.migration_id, body)
           ELSE /\ run' = [run EXCEPT
                               ![r].executed = @ \o body \o
                                   <<[op |-> "insert", id |-> migration.migration_id,
                                      body |-> migration.up]>>,
                               ![r].txn = @ \cup {inserted_row(migration)},
                               ![r].n_up = @ + 1]
                /\ UNCHANGED <<ledger, lock, migrations_table, custom>>

\* run_migrations returns: "with conn:" commits, which releases the lock
Commit(r) ==
    /\ run[r].pc = "locked"
    /\ run[r].old_branch # <<>> => (run[r].auto_apply_down
                                     /\ run[r].n_down = Len(run[r].old_branch))
    /\ run[r].n_up = Len(run[r].new_branch)
    /\ IF migrations_table[r] = DefaultTable
       THEN ledger' = run[r].txn /\ UNCHANGED custom
       ELSE custom' = run[r].txn /\ UNCHANGED ledger
    /\ lock' = lock \ {r}
    /\ UNCHANGED migrations_table
    /\ run' = [run EXCEPT ![r].pc = "done", ![r].outcome = "Success"]

Results == {"ok", "body_fails", "ledger_fails"}

\* run_migrations has returned or raised: its locals are gone
Return(r) ==
    /\ run[r].pc = "done"
    /\ run' = [run EXCEPT ![r] = NoRun]
    /\ UNCHANGED <<ledger, lock, migrations_table, custom>>

\* ---------------------------------------------------------------- Spec
\* one process, one run after the other
Begin == /\ run[Main].pc = "idle"
         /\ \E d \in Dirs, auto \in BOOLEAN, strict \in BOOLEAN :
                BeginRun(Main, d, auto, strict, FALSE)
Rerun == /\ run[Main].pc = "done"
         /\ run[Main].outcome = "Success"
         /\ \E auto \in BOOLEAN, strict \in BOOLEAN :
                BeginRun(Main, run[Main].dir, auto, strict, TRUE)
Lock == AcquireMutex(Main)
Blocked == FailBlocked(Main)
Down == \E result \in Results : ApplyDown(Main, result)
Up == \E result \in Results : ApplyUp(Main, result)
Done == Commit(Main)
Forget == Return(Main)

Next == Begin \/ Rerun \/ Lock \/ Blocked \/ Down \/ Up \/ Done \/ Forget

Spec == Init /\ [][Next]_vars

\* ---------------------------------------------------------------- ConcSpec
\* two processes, one run each, on a ledger that earlier runs have written
LedgerOf(d) ==
    IF d = {} THEN {} ELSE {inserted_row(m) : m \in Range(parse_migrations(d))}

ConcInit ==
    /\ ledger \in {LedgerOf(d) : d \in ConcDirs}
    /\ lock = {}
    /\ run = [r \in Runners |-> NoRun]
    /\ migrations_table = [r \in Runners |-> DefaultTable]
    /\ custom = {}

ConcBegin(r) ==
    /\ run[r].pc = "idle"
    /\ \E d \in ConcDirs, auto \in BOOLEAN, strict \in BOOLEAN :
            BeginRun(r, d, auto, strict, FALSE)

ConcNext ==
    \E r \in Runners :
        \/ ConcBegin(r)
        \/ AcquireMutex(r)
        \/ LockTimeout(r)
        \/ FailBlocked(r)
        \/ \E result \in Results : ApplyDown(r, result)
        \/ \E result \in Results : ApplyUp(r, result)
        \/ Commit(r)

ConcSpec == ConcInit /\ [][ConcNext]_vars

\* ---------------------------------------------------------------- LiveSpec
\* the LOCK TABLE statement of acquire_mutex ends: the server grants the lock
\* or, with lock_timeout set to 2s, raises within the bounded wait
WaitStep(r) == AcquireMutex(r) \/ LockTimeout(r)

\* a statement of a run that holds the lock, or its commit
HolderStep(r) ==
    \/ FailBlocked(r)
    \/ \E result \in Results : ApplyDown(r, result)
    \/ \E result \in Results : ApplyUp(r, result)
    \/ Commit(r)

\* a call with the default strict_digest_check = True
LiveBegin(r) ==
    /\ run[r].pc = "idle"
    /\ \E d \in ConcDirs, auto \in BOOLEAN : BeginRun(r, d, auto, TRUE, FALSE)

LiveNext ==
    \E r \in Runners :
        \/ LiveBegin(r)
        \/ AcquireMutex(r)
        \/ LockTimeout(r)
        \/ FailBlocked(r)
        \/ \E result \in Results : ApplyDown(r, result)
        \/ \E result \in Results : ApplyUp(r, result)
        \/ Commit(r)

\* two processes where every LOCK TABLE statement ends; nothing is assumed
\* about how long the holder of the lock takes
LiveSpec == ConcInit /\ [][LiveNext]_vars /\ \A r \in Runners : WF_vars(WaitStep(r))

\* ---------------------------------------------------------------- TableSpec
\* one process, one run after the other, each with or without a table name
TableNames == {None, CustomTable}

TableBegin ==
    /\ run[Main].pc = "idle"
    /\ \E d \in ConcDirs, name \in TableNames, auto \in BOOLEAN, strict \in BOOLEAN :
            run_migrations(Main, d, name, auto, strict, FALSE)

TableNext ==
    \/ TableBegin
    \/ AcquireMutex(Main)
    \/ FailBlocked(Main)
    \/ \E result \in Results : ApplyDown(Main, result)
    \/ \E result \in Results : ApplyUp(Main, result)
    \/ Commit(Main)
    \/ Return(Main)

TableSpec == Init /\ [][TableNext]_vars

\* ---------------------------------------------------------------- DiffSpec
\* get_diff on any history the table can hold (unique ids, any stored
\* digests) and any list parse_migrations can return
Rows(id) ==
    {[migration_id |-> id, up_digest |-> digest(stored), up |-> up,
      down_digest |-> digest("d"), down |-> "d"] :
        stored \in UpBodies, up \in UpBodies}

Histories ==
    UNION {{{h[i] : i \in ids} : h \in [ids -> UNION {Rows(i) : i \in ids}]} :
           ids \in SUBSET (1..MaxId)}

UniqueIds(rows) ==
    \A x \in rows, y \in rows : x.migration_id = y.migration_id => x = y

DiffInit ==
    /\ ledger \in {h \in Histories : UniqueIds(h)}
    /\ lock = {}
    /\ run = [r \in Runners |-> NoRun]
    /\ migrations_table = [r \in Runners |-> DefaultTable]
    /\ custom = {}

DiffCall ==
    /\ run[Main].pc = "idle"
    /\ \E d \in ValidDirs(MaxId, {"d"}), strict \in BOOLEAN :
        LET from_db == sorted_asc(get_db_migrations(ledger))
            from_fs == IF d = {} THEN <<>> ELSE sorted_asc(parse_migrations(d))
            diff == get_diff(from_db, from_fs, strict)
        IN  /\ run' = [run EXCEPT ![Main] =
                        [NoRun EXCEPT !.pc = "diffed", !.dir = d,
                                      !.strict_digest_check = strict,
                                      !.migrations_from_db = from_db,
                                      !.migrations_from_filesystem = from_fs,
                                      !.old_branch = diff.old_branch,
                                      !.new_branch = diff.new_branch]]
            /\ UNCHANGED <<ledger, lock, migrations_table, custom>>

DiffNext == DiffCall

DiffSpec == DiffInit /\ [][DiffNext]_vars

\* ================================================================ claims
\* the Database History: the committed rows in ascending id order
History == sorted_asc(get_db_migrations(ledger))

\* the run of r has ended because a statement of apply_up / apply_down failed
ExecutionFailed(r) == run[r].pc = "done" /\ run[r].outcome = "ExecutionFailed"

\* C1 (as amended): when an up body, a down body or the ledger insert/delete
\* after it fails, the run ends in failure with the lock released and the
\* committed ledger exactly the one the run read at its start: no rollback
\* or apply of the run is committed, and a row for the failing migration's
\* id or a later id exists only if that same row was there before the run.
C1_FailedRunLeavesLedger ==
    \A r \in Runners :
        ExecutionFailed(r) =>
            /\ ledger = Range(run[r].migrations_from_db)
            /\ r \notin lock
            /\ \A row \in ledger :
                    row.migration_id >= run[r].failed_id
                        => row \in Range(run[r].migrations_from_db)

\* C1 witness: a run that rolled back one migration, applied one and then
\* failed on a later one whose id the ledger still holds
C1_Witness ==
    /\ ExecutionFailed(Main)
    /\ run[Main].n_down >= 1
    /\ run[Main].n_up >= 1
    /\ \E row \in ledger : row.migration_id = run[Main].failed_id

\* C1 as stated: after such a failure the committed ledger is the one from
\* before the run and holds no row for the failing migration or a later one.
C1_Original ==
    \A r \in Runners :
        ExecutionFailed(r) =>
            /\ ledger = Range(run[r].migrations_from_db)
            /\ ~\E row \in ledger : row.migration_id >= run[r].failed_id

\* C2 as stated: after a run that ends in Success the Database History has
\* the ids, up bodies and up digests of the migrations the run loaded.
C2_SuccessMatchesFilesystem ==
    \A r \in Runners :
        (run[r].pc = "done" /\ run[r].outcome = "Success") =>
            LET fs == run[r].migrations_from_filesystem
            IN  /\ Len(History) = Len(fs)
                /\ \A i \in 1..Len(fs) :
                        /\ History[i].migration_id = fs[i].migration_id
                        /\ History[i].up = fs[i].up
                        /\ History[i].up_digest = fs[i].up_digest

\* C3 as stated: a run that holds the lock and has executed a body or
\* changed a ledger row acts on the history it computed its divergence
\* from: no other run has committed a change to the ledger since it read it.
C3_NoStaleDivergence ==
    \A r \in Runners :
        (run[r].pc = "locked" /\ run[r].executed # <<>>)
            => ledger = Range(run[r].migrations_from_db)

\* C4: at most one run is in the rollback/apply phase; a run holds the
\* exclusive lock exactly from acquire_mutex until its transaction ends, so
\* the lock is free after every run, successful or failed.
C4_LockExclusive ==
    /\ Cardinality({r \in Runners : run[r].pc = "locked"}) <= 1
    /\ Cardinality(lock) <= 1
    /\ \A r \in Runners : (r \in lock) <=> (run[r].pc = "locked")

\* C4 witness: one run is applying under the lock while the other waits
\* for it
C4_Witness ==
    \E r1 \in Runners, r2 \in Runners :
        /\ r1 # r2
        /\ run[r1].pc = "locked" /\ run[r1].executed # <<>>
        /\ run[r2].pc = "acquire"

\* C5: with old_branch non-empty and auto_apply_down false the run fails
\* and mutates nothing: no body executed, no row inserted or deleted,
\* new_branch not applied.
C5_RefusedRollbackMutatesNothing ==
    \A r \in Runners :
        (run[r].pc \in {"locked", "done"} /\ run[r].old_branch # <<>>
            /\ ~run[r].auto_apply_down) =>
            /\ run[r].executed = <<>>
            /\ run[r].n_down = 0 /\ run[r].n_up = 0
            /\ ledger = Range(run[r].migrations_from_db)
            /\ run[r].pc = "locked" => run[r].txn = ledger
            /\ run[r].pc = "done" => run[r].outcome = "DownsNotAllowed"

\* C5 witness: a refused run with two migrations to roll back and some to
\* apply
C5_Witness ==
    /\ run[Main].pc = "done"
    /\ run[Main].outcome = "DownsNotAllowed"
    /\ Len(run[Main].old_branch) >= 2
    /\ run[Main].new_branch # <<>>

\* C6: a run repeated on the unchanged directory after a successful run
\* computes both branches empty, executes nothing, leaves the ledger as it
\* is and succeeds, for either strict_digest_check.
C6_RerunIsNoOp ==
    \A r \in Runners :
        run[r].rerun =>
            /\ run[r].pc \in {"acquire", "locked", "done"}
            /\ run[r].old_branch = <<>>
            /\ run[r].new_branch = <<>>
            /\ run[r].executed = <<>>
            /\ ledger = Range(run[r].migrations_from_db)
            /\ run[r].pc = "done" => run[r].outcome = "Success"

\* C6 witness: a repeated run without the strict check has ended on a
\* ledger of two migrations
C6_Witness ==
    /\ run[Main].rerun
    /\ run[Main].pc = "done"
    /\ ~run[Main].strict_digest_check
    /\ Len(run[Main].migrations_from_db) >= 2

\* ---- get_diff as a function (DiffSpec)
Diffed == run[Main].pc = "diffed"

StrictlyDescending(s) ==
    \A i \in 1..(Len(s) - 1) : s[i].migration_id > s[i + 1].migration_id
StrictlyAscending(s) ==
    \A i \in 1..(Len(s) - 1) : s[i].migration_id < s[i + 1].migration_id

\* C7: get_diff returns old_branch strictly descending and new_branch
\* strictly ascending by id, for every history, file set and strict setting,
\* so the lists pass the order assertions of unapply_all and apply_all.
C7_BranchOrder ==
    \A r \in Runners :
        /\ StrictlyDescending(run[r].old_branch)
        /\ StrictlyAscending(run[r].new_branch)
        /\ sorted_desc(run[r].old_branch) = run[r].old_branch
        /\ sorted_asc(run[r].new_branch) = run[r].new_branch

\* C7 witness: a divergence with two migrations to roll back and two to apply
C7_Witness ==
    /\ Diffed
    /\ Len(run[Main].old_branch) >= 2
    /\ Len(run[Main].new_branch) >= 2

\* the up identity the claims speak of: the digest recomputed from the up
\* body under strict, the stored up_digest otherwise
UpIdentity(m) ==
    IF run[Main].strict_digest_check
    THEN digest(m.up)
    ELSE m.up_digest

\* the history of the call has ids 1..n
DenseHistory ==
    \A i \in 1..Len(run[Main].migrations_from_db) :
        run[Main].migrations_from_db[i].migration_id = i

\* the ids up to min(n, m) at which the up identities differ
DifferingIds ==
    LET db == run[Main].migrations_from_db
        fs == run[Main].migrations_from_filesystem
    IN  {i \in 1..Len(db) : i <= Len(fs) /\ UpIdentity(db[i]) # UpIdentity(fs[i])}

\* C8: for a history with ids 1..n and a file set with ids 1..m, with k the
\* lowest id at which the compared up identity differs, old_branch is the
\* ledger entries k..n descending and new_branch the file migrations k..m
\* ascending, both with minimum id k.
C8_DivergenceAtFirstDifference ==
    (Diffed /\ DenseHistory /\ DifferingIds # {}) =>
        LET db == run[Main].migrations_from_db
            fs == run[Main].migrations_from_filesystem
            n == Len(db)
            k == Min(DifferingIds)
            old == run[Main].old_branch
            new == run[Main].new_branch
        IN  /\ Len(old) = n - k + 1
            /\ \A j \in 1..Len(old) : old[j] = db[n + 1 - j]
            /\ new = SubSeq(fs, k, Len(fs))
            /\ old[Len(old)].migration_id = k
            /\ new[1].migration_id = k

\* C8 witness: without the strict check the first difference is at id 2 of a
\* two-row history whose first row stores a digest that is not the one of its
\* up body (the strict check would differ at id 1)
C8_Witness ==
    /\ Diffed /\ DenseHistory
    /\ ~run[Main].strict_digest_check
    /\ Len(run[Main].migrations_from_db) = 2
    /\ DifferingIds = {2}
    /\ digest(run[Main].migrations_from_db[1].up)
           # digest(run[Main].migrations_from_filesystem[1].up)

\* C9: when the lockstep comparison finds no difference, old_branch is empty
\* and new_branch is exactly the file migrations with id above the highest
\* history id (0 for an empty history), ascending.
C9_NoDifferenceAppendsTail ==
    LET db == run[Main].migrations_from_db
        fs == run[Main].migrations_from_filesystem
        positions == {i \in 1..Len(db) : i <= Len(fs)}
        highest == IF db = <<>> THEN 0
                   ELSE Max({db[i].migration_id : i \in 1..Len(db)})
    IN  (Diffed /\ \A i \in positions : UpIdentity(db[i]) = UpIdentity(fs[i])) =>
            /\ run[Main].old_branch = <<>>
            /\ run[Main].new_branch =
                   SelectSeq(fs, LAMBDA m : m.migration_id > highest)
            /\ StrictlyAscending(run[Main].new_branch)

\* C9 witness: a one-row history that is a prefix of a two-migration file set
C9_Witness ==
    /\ Diffed /\ DenseHistory
    /\ Len(run[Main].migrations_from_db) = 1
    /\ Len(run[Main].migrations_from_filesystem) = 2
    /\ DifferingIds = {}
    /\ Len(run[Main].new_branch) = 1

\* ---- the empty directory (Spec)
\* C10 as stated: a run on a directory without .sql files proceeds with no
\* migrations, computes an empty new_branch and ends as a successful no-op.
C10_EmptyDirectorySucceeds ==
    \A r \in Runners :
        (run[r].pc = "done" /\ get_migration_files_filtered(run[r].dir) = {}) =>
            /\ run[r].outcome = "Success"
            /\ run[r].new_branch = <<>>
            /\ run[r].executed = <<>>

\* ---- the loader (Spec)
\* the ways a run ends before it has loaded a migration set
LoadErrors == {"RuntimeError", "AssertionError", "exit3", "ValueError"}

\* the run of r was given a directory and loaded its migration set
Loaded(r) == run[r].pc \in {"acquire", "locked", "done"}
                /\ run[r].outcome \notin LoadErrors

\* the names i_up.sql and i_down.sql for i in 1..m
PairNames(m) ==
    {[lead |-> Str(i), tail |-> t] : i \in 1..m, t \in {"up.sql", "down.sql"}}

\* C11: a load succeeds only if the .sql file names are exactly i_up.sql and
\* i_down.sql for i in 1..max_id, and the loaded set then has the ids
\* 1..max_id, each once, ascending; with a pair member missing, an extra
\* .sql file or a name without a leading integer the load fails, and a
\* failed load returns no migration at all.
C11_LoadedSetIsContiguous ==
    \A r \in Runners :
        run[r].pc \in {"acquire", "locked", "done"} =>
            LET sql == {f.name : f \in {g \in run[r].dir : g.name.tail \in SqlTails}}
                fs == run[r].migrations_from_filesystem
                exact == \E m \in 0..(Cardinality(sql) + 1) : sql = PairNames(m)
            IN  /\ Loaded(r) =>
                    /\ exact
                    /\ sql = PairNames(Len(fs))
                    /\ \A i \in 1..Len(fs) : fs[i].migration_id = i
                /\ ~exact => ~Loaded(r)
                /\ ~Loaded(r) => fs = <<>>

\* C11 witness: a directory of two pairs has been loaded
C11_Witness ==
    /\ Loaded(Main)
    /\ Len(run[Main].migrations_from_filesystem) = 2
    /\ Cardinality(run[Main].dir) = 4

\* ---- the lock wait (ConcSpec)
\* the run of r has just left the lock wait without the lock
GivesUpWaiting(r) == run[r].pc = "acquire" /\ run'[r].pc = "done"

\* C12: a run that cannot get the ledger lock because another run still
\* holds it when the wait expires fails with the in-progress error, has
\* executed no migration body and has changed no ledger row.
C12_LockTimeoutChangesNothing ==
    /\ [](\A r \in Runners :
            run[r].outcome = "MigrationInProgress" =>
                /\ run[r].pc = "done"
                /\ run[r].executed = <<>>
                /\ run[r].n_down = 0 /\ run[r].n_up = 0
                /\ r \notin lock)
    /\ [][\A r \in Runners :
            GivesUpWaiting(r) =>
                /\ lock \ {r} # {}
                /\ run'[r].outcome = "MigrationInProgress"
                /\ ledger' = ledger
                /\ lock' = lock]_vars

\* C12 witness: a run with migrations to apply gave up waiting while the
\* other run, which has executed statements, still holds the lock
C12_Witness ==
    \E r \in Runners, h \in Runners :
        /\ run[r].outcome = "MigrationInProgress"
        /\ run[r].new_branch # <<>>
        /\ h \in lock
        /\ run[h].executed # <<>>

\* ---- termination (LiveSpec)
Terminal(r) == run[r].pc = "done" /\ run[r].outcome # "none"

\* C13: a run waiting for the ledger lock never waits forever, whatever the
\* holder does (commit, fail, or keep the lock longer than the bounded
\* wait); and when the statements of the holder end, every run that has
\* started reaches a terminal state, Success or a failure.
C13_EveryRunTerminates ==
    /\ \A r \in Runners :
            run[r].pc = "acquire" ~> run[r].pc \in {"locked", "done"}
    /\ (\A r \in Runners : WF_vars(HolderStep(r)))
            => \A r \in Runners :
                    run[r].pc \in {"acquire", "locked"} ~> Terminal(r)

\* C13 witness: a run has ended with the in-progress error while the holder,
\* in the middle of its statements, still has the lock
C13_Witness ==
    \E r \in Runners, h \in Runners :
        /\ Terminal(r)
        /\ run[r].outcome = "MigrationInProgress"
        /\ run[h].pc = "locked"
        /\ run[h].n_down + run[h].n_up > 0
        /\ run[h].n_up < Len(run[h].new_branch)

\* ---- the order of the statements of a run (Spec)
\* the positions in the log of r of the statements of kind op
At(r, op) == {i \in 1..Len(run[r].executed) : run[r].executed[i].op = op}

\* C14: within one run every rollback statement precedes every apply
\* statement; rollbacks go in strictly descending id order and applies in
\* strictly ascending id order; the body of a migration is executed before
\* its ledger row is deleted (rollback) or inserted (apply); and each body
\* is executed at most once in the run.
C14_StatementOrder ==
    \A r \in Runners :
        LET log == run[r].executed
            downs == At(r, "down") \cup At(r, "delete")
            ups == At(r, "up") \cup At(r, "insert")
        IN  /\ \A i \in downs, j \in ups : i < j
            /\ \A op \in {"down", "delete"} : \A i \in At(r, op), j \in At(r, op) :
                    i < j => log[i].id > log[j].id
            /\ \A op \in {"up", "insert"} : \A i \in At(r, op), j \in At(r, op) :
                    i < j => log[i].id < log[j].id
            /\ \A i \in At(r, "down"), j \in At(r, "delete") :
                    log[i].id = log[j].id => i < j
            /\ \A j \in At(r, "insert") :
                    j - 1 \in At(r, "up") /\ log[j - 1].id = log[j].id
            /\ \A i \in At(r, "down") : \A j \in At(r, "delete") :
                    j < i => log[j].id > log[i].id

\* C14 witness: a run that rolled back 2 then 1 and applied 1 then 2, two
\* statements each, has committed
C14_Witness ==
    /\ run[Main].pc = "done"
    /\ run[Main].outcome = "Success"
    /\ Len(run[Main].executed) = 8
    /\ run[Main].executed[1].op = "down" /\ run[Main].executed[1].id = 2
    /\ run[Main].executed[8].op = "insert" /\ run[Main].executed[8].id = 2

\* ---- the refused rollback (Spec)
\* the migration ids the RuntimeError of lines 244-246 names: its message is
\* built from old_branch[0].migration_id alone
NamedInError(r) == {run[r].failed_id}

\* C15: when a run fails because a rollback is needed and auto_apply_down
\* is false, the error it reports names every migration id in old_branch.
C15_RefusalNamesEveryId ==
    \A r \in Runners :
        run[r].outcome = "DownsNotAllowed" =>
            NamedInError(r) =
                {run[r].old_branch[i].migration_id : i \in 1..Len(run[r].old_branch)}

\* ---- the ledger table name (TableSpec)
\* the run of r got as far as reading its ledger table
ReadsTable(r) ==
    /\ run[r].pc \in {"acquire", "locked", "done"}
    /\ run[r].outcome \notin {"RuntimeError", "AssertionError", "exit3"}

\* C16: a run given no table name reads and writes the default table
\* goose_migrations, also after an earlier run of the same process was given
\* another name.
C16_NoOverrideUsesDefault ==
    \A r \in Runners :
        (ReadsTable(r) /\ run[r].migrations_table_name = None) =>
            /\ migrations_table[r] = DefaultTable
            /\ run[r].pc = "locked" =>
                    \A row \in run[r].txn \ ledger :
                        \E i \in 1..run[r].n_up :
                            row = inserted_row(run[r].new_branch[i])

\* ---- the empty down body (Spec)
\* the statements of kind op the run of r executed for migration id
Executed(r, op, id) ==
    {i \in 1..Len(run[r].executed) :
        run[r].executed[i].op = op /\ run[r].executed[i].id = id}

\* the rollback of the j-th entry of old_branch is through
RolledBack(r, j) == j <= run[r].n_down

\* C17: rolling back a ledger entry whose down body is empty executes no
\* SQL body for it but still deletes its ledger row; the rollback of the
\* other entries of old_branch and the apply of new_branch go on as for a
\* non-empty down body.
C17_EmptyDownStillDeletes ==
    \A r \in Runners :
        /\ \A j \in 1..Len(run[r].old_branch) :
                LET m == run[r].old_branch[j]
                IN  RolledBack(r, j) =>
                        /\ Cardinality(Executed(r, "delete", m.migration_id)) = 1
                        /\ Cardinality(Executed(r, "down", m.migration_id)) =
                                (IF m.down = "" THEN 0 ELSE 1)
                        /\ \A i \in Executed(r, "down", m.migration_id) :
                                run[r].executed[i].body = m.down
        /\ (run[r].pc = "locked" /\ run[r].n_up = 0) =>
                run[r].txn = {row \in Range(run[r].migrations_from_db) :
                                \A j \in 1..run[r].n_down :
                                    run[r].old_branch[j].migration_id
                                        # row.migration_id}
        /\ (run[r].pc = "done" /\ run[r].outcome = "Success"
                /\ run[r].old_branch # <<>>) =>
                /\ run[r].n_down = Len(run[r].old_branch)
                /\ run[r].n_up = Len(run[r].new_branch)

\* C17 witness: a run rolled back 2, whose down body is empty, then 1, whose
\* down body is not, applied two migrations and committed
C17_Witness ==
    /\ run[Main].pc = "done"
    /\ run[Main].outcome = "Success"
    /\ Len(run[Main].old_branch) = 2
    /\ run[Main].old_branch[1].down = ""
    /\ run[Main].old_branch[2].down # ""
    /\ run[Main].n_up = 2
    /\ Len(run[Main].executed) = 7

\* ---- the ids of the ledger (Spec)
\* C18: from an empty ledger, after any sequence of runs made one at a
\* time, on any directory and with any options, ended in success or in
\* failure, the ledger ids are exactly 1..n for some n >= 0, without gap or
\* duplicate: the position of an entry in id order is its id, as the
\* lockstep comparison of get_diff takes for granted.
C18_LedgerIdsContiguous ==
    LET n == Cardinality(ledger)
        in_id_order == sorted_asc(get_db_migrations(ledger))
    IN  /\ {row.migration_id : row \in ledger} = 1..n
        /\ Len(in_id_order) = n
        /\ \A i \in 1..n : in_id_order[i].migration_id = i
        /\ \A r \in Runners :
                run[r].pc \in {"acquire", "locked", "done"} =>
                    \A i \in 1..Len(run[r].migrations_from_db) :
                        run[r].migrations_from_db[i].migration_id = i

\* C18 witness: a ledger of two rows, left as it was by a run that failed
\* after it had rolled back one migration
C18_Witness ==
    /\ Cardinality(ledger) = 2
    /\ run[Main].pc = "done"
    /\ run[Main].outcome = "ExecutionFailed"
    /\ run[Main].n_down = 1
    /\ \E row \in ledger : row.migration_id = 1 /\ row.up = "b"

\* ---- the stored digests (Spec)
\* the digests of the row are those of its bodies
DigestsMatch(row) ==
    /\ row.up_digest = digest(row.up)
    /\ row.down_digest = digest(row.down)

\* C19: every ledger row written by a run has up_digest = digest(up) and
\* down_digest = digest(down); so on a ledger that only runs have written,
\* get_diff with strict_digest_check true and with strict_digest_check
\* false return the same old_branch and new_branch for a filesystem set.
C19_StrictAndStoredAgree ==
    /\ \A row \in ledger : DigestsMatch(row)
    /\ \A r \in Runners :
            /\ \A row \in run[r].txn : DigestsMatch(row)
            /\ (run[r].pc \in {"acquire", "locked", "done"}
                    /\ run[r].migrations_from_filesystem # <<>>) =>
                    LET strict == get_diff(run[r].migrations_from_db,
                                           run[r].migrations_from_filesystem, TRUE)
                        stored == get_diff(run[r].migrations_from_db,
                                           run[r].migrations_from_filesystem, FALSE)
                    IN  /\ strict = stored
                        /\ run[r].old_branch = strict.old_branch
                        /\ run[r].new_branch = strict.new_branch

\* C19 witness: a run without strict_digest_check, on a ledger of two rows
\* written by earlier runs, has found a divergence at the second row
C19_Witness ==
    /\ run[Main].pc = "acquire"
    /\ ~run[Main].strict_digest_check
    /\ Len(run[Main].migrations_from_db) = 2
    /\ Len(run[Main].old_branch) = 1
    /\ Len(run[Main].new_branch) = 1

\* ---- the down body that is rolled back (Spec)
\* the history and the directory of the run of r differ in down bodies only
OnlyDownsEdited(r) ==
    LET db == run[r].migrations_from_db
        fs == run[r].migrations_from_filesystem
    IN  /\ run[r].pc \in {"acquire", "locked", "done"}
        /\ fs # <<>>
        /\ Len(db) = Len(fs)
        /\ \A i \in 1..Len(db) : db[i].up = fs[i].up
        /\ \E i \in 1..Len(db) : db[i].down # fs[i].down

\* C20: a rollback executes the down body stored in the ledger row when the
\* migration was applied, never the one now on disk; editing only the down
\* body of an applied migration on disk gives an empty divergence and
\* leaves the stored down body and down digest as they were.
C20_RollbackUsesStoredDown ==
    \A r \in Runners :
        /\ \A i \in At(r, "down") :
                \E row \in Range(run[r].migrations_from_db) :
                    /\ row.migration_id = run[r].executed[i].id
                    /\ row.down = run[r].executed[i].body
        /\ OnlyDownsEdited(r) =>
                /\ run[r].old_branch = <<>>
                /\ run[r].new_branch = <<>>
                /\ run[r].executed = <<>>
                /\ run[r].pc = "locked" =>
                        run[r].txn = Range(run[r].migrations_from_db)
                /\ run[r].pc = "done" =>
                        /\ run[r].outcome = "Success"
                        /\ ledger = Range(run[r].migrations_from_db)

\* C20 witness: a run on a directory where only the down body of applied
\* migration 1 was edited has committed
C20_Witness ==
    /\ OnlyDownsEdited(Main)
    /\ run[Main].pc = "done"
    /\ run[Main].migrations_from_db[1].down # run[Main].migrations_from_filesystem[1].down
    /\ \E row \in ledger : row.migration_id = 1
                             /\ row.down = run[Main].migrations_from_db[1].down

====
